---- MODULE Spec2Model ----
(***************************************************************************)
(* Model of crossbar/router/router.py: the per-realm Router (session        *)
(* attach/detach, message dispatch, role registry, authorization) and the  *)
(* RouterFactory (realm registry, realm start-up, teardown on last detach). *)
(*                                                                         *)
(* Every public method is one action; the action performs the method's     *)
(* statements in order and records in lastOp what the call did: the error  *)
(* it raised (status), the value it returned (ret) and the ordered list of *)
(* calls it made into its collaborators and of its own state updates       *)
(* (trace).  Broker, Dealer and the Role classes live outside this file;   *)
(* they are represented by the calls the Router makes into them.           *)
(***************************************************************************)
EXTENDS Integers, Sequences, FiniteSets, TLC

(***************************************************************************)
(* Bounds of the model.                                                    *)
(***************************************************************************)
\* session identifiers are 1..MaxSessionId
MaxSessionId == 2
\* at most MaxRouters Router objects are ever constructed
MaxRouters == 2
\* attach is explored while _attached < MaxAttached
MaxAttached == 2
\* detach is explored while _attached > -MaxDeficit
MaxDeficit == 1
\* at most MaxPending authorize calls are suspended at a time
MaxPending == 2

(***************************************************************************)
(* Input alphabets.                                                        *)
(***************************************************************************)
\* Realm names callers pass to the factory; "r2" is never started and stands
\* for a realm the factory does not know.
Realms == {"r1", "r2"}

\* The realm names of the configurations handed to start_realm.
ConfiguredRealms == {"r1"}

RoleURIs == {"trusted", "user"}

\* Router.RESERVED_ROLES
RESERVED_ROLES == {"trusted"}

SessionIds == 1..MaxSessionId

\* The authrole a session handle of the model carries: session 1 is
\* authenticated as "trusted", every other session as "user".
AuthRoleOf(i) == IF i = 1 THEN "trusted" ELSE "user"

\* A session handle: _session_id, whether it has _session_details (a client
\* session), and _authrole.
Sessions ==
    { [id |-> i, client |-> c, authrole |-> AuthRoleOf(i)] :
        i \in SessionIds, c \in BOOLEAN }

NoSession == [id |-> 0, client |-> FALSE, authrole |-> ""]

_is_client_session(session) == session.client

\* Messages handed to process: the message class and, for Error, request_type.
MessageKinds ==
    {"Publish", "Subscribe", "Unsubscribe", "Register", "Unregister",
     "Call", "Cancel", "Yield", "Error", "Goodbye", "Hello"}

Messages ==
    { [kind |-> k, request_type |-> "none"] : k \in MessageKinds \ {"Error"} }
    \cup { [kind |-> "Error", request_type |-> q] : q \in {"Invocation", "Call"} }

\* The authorizer procedures of dynamic roles: "any" is a procedure that can
\* give every result, "allow_all" and "deny_all" answer True and False.
Authorizers == {"any", "allow_all", "deny_all"}

\* RouterRoleDynamicAuth(router, uri, authorizer)
DynamicRole(u, authorizer) ==
    [uri |-> u, kind |-> "dynamic", allow_by_default |-> FALSE, authorizer |-> authorizer]

\* Role objects handed to Router.add_role / Router.drop_role: a static role
\* (permission table), a dynamic role (authorizer procedure) or a default role
\* (allow_by_default flag).
Roles ==
    { [uri |-> u, kind |-> "static", allow_by_default |-> FALSE] : u \in RoleURIs }
    \cup { DynamicRole(u, "any") : u \in RoleURIs }
    \cup { [uri |-> u, kind |-> "default", allow_by_default |-> a] :
             u \in RoleURIs, a \in BOOLEAN }

\* RouterTrustedRole(self, u'trusted'), installed by Router.__init__
TrustedRole == [uri |-> "trusted", kind |-> "trusted", allow_by_default |-> FALSE]

Actions == {"call", "register", "publish", "subscribe"}

Uris == {"t"}

\* Realm configurations handed to start_realm: name, the type of the optional
\* store section ("absent" when the key is missing) and the optional
\* mqtt_payload_format.  The set holds, for each name, a configuration for
\* every branch of start_realm: no optional key, each store type alone, a
\* store with a valid format, an invalid format alone and after each store.
RealmSettings ==
    { <<"absent", "absent">>, <<"lmdb", "absent">>, <<"memory", "json">>,
      <<"redis", "absent">>, <<"absent", "xml">>, <<"lmdb", "xml">>,
      <<"memory", "xml">> }

RealmConfigs ==
    { [name |-> n, store |-> x[1], mqtt_payload_format |-> x[2]] :
        n \in ConfiguredRealms, x \in RealmSettings }

VARIABLES
    HAS_LMDB,   \* crossbar.router.realmstore.HAS_LMDB of this deployment
    _auto_create_realms,    \* RouterFactory._auto_create_realms
    routers,    \* RouterFactory._routers: realm name -> Router object (its id)
    rt,         \* the Router objects constructed so far, by id 1..Len(rt)
    pending,    \* authorize calls suspended in a dynamic role's authorizer
    lastOp      \* what the last operation was and what it did

vars == <<HAS_LMDB, _auto_create_realms, routers, rt, pending, lastOp>>

RouterIds == 1..Len(rt)

NoArg == [none |-> TRUE]

NoRet == [none |-> TRUE]

Op(op, r, s, arg, status, ret, trace) ==
    [op |-> op, rtr |-> r, sess |-> s, arg |-> arg,
     status |-> status, ret |-> ret, trace |-> trace]

\* dict helpers
Put(d, k, v) == [x \in (DOMAIN d) \cup {k} |-> IF x = k THEN v ELSE d[x]]

Del(d, k) == [x \in (DOMAIN d) \ {k} |-> d[x]]

EmptyDict == [x \in {} |-> NoSession]

(***************************************************************************)
(* Router.__init__                                                         *)
(***************************************************************************)
NewRouter(realm, store, mqtt_payload_format) ==
    [realm |-> realm,
     store |-> store,
     mqtt_payload_format |-> mqtt_payload_format,
     sessions |-> EmptyDict,
     attached |-> 0,
     roles |-> [u \in {"trusted"} |-> TrustedRole]]

(***************************************************************************)
(* RouterFactory.__init__                                                  *)
(***************************************************************************)
Init ==
    /\ HAS_LMDB \in BOOLEAN
    /\ _auto_create_realms = FALSE
    /\ routers = [x \in {} |-> 0]
    /\ rt = << >>
    /\ pending = {}
    /\ lastOp = Op("init", 0, NoSession, NoArg, "ok", NoRet, << >>)

(***************************************************************************)
(* Router.attach                                                           *)
(***************************************************************************)
AttachRegisters_All(R, session) == Put(R.sessions, session.id, session)

\* if _is_client_session(session): self._session_id_to_session[...] = session
AttachRegisters(R, session) ==
    IF _is_client_session(session)
    THEN Put(R.sessions, session.id, session)
    ELSE R.sessions

AttachFails_NoCheck(R, session) == FALSE

\* if session._session_id not in self._session_id_to_session: ... else: raise
AttachFails(R, session) == session.id \in DOMAIN R.sessions

Attach(r, session) ==
    LET R == rt[r] IN
    /\ R.attached < MaxAttached
    /\ IF AttachFails(R, session)
       THEN /\ lastOp' = Op("attach", r, session, NoArg, "DuplicateAttach", NoRet, << >>)
            /\ UNCHANGED <<rt, routers>>
       ELSE /\ rt' = [rt EXCEPT ![r] =
                        [R EXCEPT !.sessions = AttachRegisters(R, session),
                                  !.attached = R.attached + 1]]
            /\ lastOp' = Op("attach", r, session, NoArg, "ok",
                            [broker |-> "broker_features", dealer |-> "dealer_features"],
                            (IF _is_client_session(session)
                             THEN <<"sessions.put">> ELSE << >>)
                            \o <<"broker.attach", "dealer.attach", "attached.inc">>)
            /\ UNCHANGED routers
    /\ UNCHANGED <<HAS_LMDB, _auto_create_realms, pending>>

(***************************************************************************)
(* RouterFactory.onLastDetach                                              *)
(***************************************************************************)
\* assert(router.realm in self._routers)
LastDetachAsserts(R) == R.realm \in DOMAIN routers

\* del self._routers[router.realm]
onLastDetach(R) == Del(routers, R.realm)

(***************************************************************************)
(* Router.detach                                                           *)
(***************************************************************************)
DetachFails_NoCheck(R, session) == FALSE

\* the session is not registered and is a client session: raise
DetachFails(R, session) ==
    /\ session.id \notin DOMAIN R.sessions
    /\ _is_client_session(session)

DetachRemoves(R, session) ==
    IF session.id \in DOMAIN R.sessions
    THEN Del(R.sessions, session.id)
    ELSE R.sessions

IsLastDetach_Inverted(attached) == attached # 0

\* if not self._attached
IsLastDetach(attached) == attached = 0

DetachForwards_AfterRemoval == << >>

\* self._broker.detach(session); self._dealer.detach(session)
DetachForwards == <<"broker.detach", "dealer.detach">>

Detach(r, session) ==
    LET R == rt[r]
        forwarded == DetachForwards
        removed == IF session.id \in DOMAIN R.sessions
                   THEN <<"sessions.del">> ELSE << >>
        R2 == [R EXCEPT !.sessions = DetachRemoves(R, session),
                        !.attached = R.attached - 1]
    IN
    /\ R.attached > -MaxDeficit
    /\ IF DetachFails(R, session)
       THEN /\ lastOp' = Op("detach", r, session, NoArg, "NotAttached", NoRet, forwarded)
            /\ UNCHANGED <<rt, routers>>
       ELSE /\ rt' = [rt EXCEPT ![r] = R2]
            /\ IF IsLastDetach(R2.attached)
               THEN IF LastDetachAsserts(R)
                    THEN /\ routers' = onLastDetach(R)
                         /\ lastOp' = Op("detach", r, session, NoArg, "ok", NoRet,
                                forwarded \o removed
                                \o <<"attached.dec", "factory.onLastDetach", "routers.del">>)
                    ELSE /\ UNCHANGED routers
                         /\ lastOp' = Op("detach", r, session, NoArg, "AssertionError", NoRet,
                                forwarded \o removed
                                \o <<"attached.dec", "factory.onLastDetach">>)
               ELSE /\ UNCHANGED routers
                    /\ lastOp' = Op("detach", r, session, NoArg, "ok", NoRet,
                                forwarded \o removed \o <<"attached.dec">>)
    /\ UNCHANGED <<HAS_LMDB, _auto_create_realms, pending>>

(***************************************************************************)
(* Router.process                                                          *)
(***************************************************************************)
\* The chain without the request_type test on Error.
Dispatch_AnyError(msg) ==
    IF msg.kind = "Publish" THEN "broker.processPublish"
    ELSE IF msg.kind = "Subscribe" THEN "broker.processSubscribe"
    ELSE IF msg.kind = "Unsubscribe" THEN "broker.processUnsubscribe"
    ELSE IF msg.kind = "Register" THEN "dealer.processRegister"
    ELSE IF msg.kind = "Unregister" THEN "dealer.processUnregister"
    ELSE IF msg.kind = "Call" THEN "dealer.processCall"
    ELSE IF msg.kind = "Cancel" THEN "dealer.processCancel"
    ELSE IF msg.kind = "Yield" THEN "dealer.processYield"
    ELSE IF msg.kind = "Error" THEN "dealer.processInvocationError"
    ELSE "none"

\* The chain with the Error branch as its final else.
Dispatch_NoElse(msg) ==
    IF msg.kind = "Publish" THEN "broker.processPublish"
    ELSE IF msg.kind = "Subscribe" THEN "broker.processSubscribe"
    ELSE IF msg.kind = "Unsubscribe" THEN "broker.processUnsubscribe"
    ELSE IF msg.kind = "Register" THEN "dealer.processRegister"
    ELSE IF msg.kind = "Unregister" THEN "dealer.processUnregister"
    ELSE IF msg.kind = "Call" THEN "dealer.processCall"
    ELSE IF msg.kind = "Cancel" THEN "dealer.processCancel"
    ELSE IF msg.kind = "Yield" THEN "dealer.processYield"
    ELSE IF msg.kind = "Error" /\ msg.request_type # "Invocation" THEN "none"
    ELSE "dealer.processInvocationError"

\* The isinstance chain: the handler a message is forwarded to, "none" when
\* the chain falls through to the final else.
Dispatch(msg) ==
    IF msg.kind = "Publish" THEN "broker.processPublish"
    ELSE IF msg.kind = "Subscribe" THEN "broker.processSubscribe"
    ELSE IF msg.kind = "Unsubscribe" THEN "broker.processUnsubscribe"
    ELSE IF msg.kind = "Register" THEN "dealer.processRegister"
    ELSE IF msg.kind = "Unregister" THEN "dealer.processUnregister"
    ELSE IF msg.kind = "Call" THEN "dealer.processCall"
    ELSE IF msg.kind = "Cancel" THEN "dealer.processCancel"
    ELSE IF msg.kind = "Yield" THEN "dealer.processYield"
    ELSE IF msg.kind = "Error" /\ msg.request_type = "Invocation"
         THEN "dealer.processInvocationError"
    ELSE "none"

\* The session argument is handed on to the handler as it is and is read only
\* by the trace filter, which is off (_trace_traffic = False, and nothing in
\* this file turns it on): the action is the same for every session.
Process(r, msg) ==
    /\ IF Dispatch(msg) = "none"
       THEN lastOp' = Op("process", r, NoSession, msg, "ProtocolError", NoRet, << >>)
       ELSE lastOp' = Op("process", r, NoSession, msg, "ok", NoRet, <<Dispatch(msg)>>)
    /\ UNCHANGED <<HAS_LMDB, _auto_create_realms, routers, rt, pending>>

(***************************************************************************)
(* Router.has_role, Router.add_role, Router.drop_role                      *)
(***************************************************************************)
has_role(R, uri) == uri \in DOMAIN R.roles

IsReserved_Never(uri) == FALSE

\* if role.uri in self.RESERVED_ROLES
IsReserved(uri) == uri \in RESERVED_ROLES

Overwritten_Always(R, role) == TRUE

\* overwritten = role.uri in self._roles
Overwritten(R, role) == role.uri \in DOMAIN R.roles

AddRole(r, role) ==
    LET R == rt[r] IN
    /\ IF IsReserved(role.uri)
       THEN /\ lastOp' = Op("add_role", r, NoSession, role, "ReservedRole", NoRet, << >>)
            /\ UNCHANGED rt
       ELSE /\ rt' = [rt EXCEPT ![r] = [R EXCEPT !.roles = Put(R.roles, role.uri, role)]]
            /\ lastOp' = Op("add_role", r, NoSession, role, "ok",
                            [value |-> Overwritten(R, role)], << >>)
    /\ UNCHANGED <<HAS_LMDB, _auto_create_realms, routers, pending>>

DropRole(r, role) ==
    LET R == rt[r] IN
    /\ IF IsReserved(role.uri)
       THEN /\ lastOp' = Op("drop_role", r, NoSession, role, "ReservedRole", NoRet, << >>)
            /\ UNCHANGED rt
       ELSE IF role.uri \in DOMAIN R.roles
       THEN /\ rt' = [rt EXCEPT ![r] = [R EXCEPT !.roles = Del(R.roles, role.uri)]]
            /\ lastOp' = Op("drop_role", r, NoSession, role, "ok", [value |-> TRUE], << >>)
       ELSE /\ lastOp' = Op("drop_role", r, NoSession, role, "ok", [value |-> FALSE], << >>)
            /\ UNCHANGED rt
    /\ UNCHANGED <<HAS_LMDB, _auto_create_realms, routers, pending>>

(***************************************************************************)
(* RouterFactory.start_realm                                               *)
(***************************************************************************)
\* start_realm without the HAS_LMDB test.
StartRealmStatus_NoLmdbCheck(config) ==
    IF config.name \in DOMAIN routers THEN "AssertionError"
    ELSE IF config.store \notin {"absent", "lmdb", "memory"} THEN "LogicError"
    ELSE IF /\ config.mqtt_payload_format # "absent"
            /\ config.mqtt_payload_format \notin {"opaque", "json", "cbor"}
         THEN "InvalidConfig"
    ELSE "ok"

\* start_realm without the test of mqtt_payload_format.
StartRealmStatus_NoFormatCheck(config) ==
    IF config.name \in DOMAIN routers THEN "AssertionError"
    ELSE IF config.store = "lmdb" /\ ~HAS_LMDB THEN "BackendUnavailable"
    ELSE IF config.store \notin {"absent", "lmdb", "memory"} THEN "LogicError"
    ELSE "ok"

\* The outcome of the checks of start_realm, in the order the code makes them.
StartRealmStatus(config) ==
    IF config.name \in DOMAIN routers THEN "AssertionError"
    ELSE IF config.store = "lmdb" /\ ~HAS_LMDB THEN "BackendUnavailable"
    ELSE IF config.store \notin {"absent", "lmdb", "memory"} THEN "LogicError"
    ELSE IF /\ config.mqtt_payload_format # "absent"
            /\ config.mqtt_payload_format \notin {"opaque", "json", "cbor"}
         THEN "InvalidConfig"
    ELSE "ok"

\* store = None unless the configuration has a store section
StoreOf(config) == IF config.store = "absent" THEN "none" ELSE config.store

\* mqtt_payload_format = "opaque" unless the configuration names one
FormatOf(config) ==
    IF config.mqtt_payload_format = "absent"
    THEN "opaque" ELSE config.mqtt_payload_format

StartRealm(config) ==
    /\ IF StartRealmStatus(config) = "ok"
       THEN /\ Len(rt) < MaxRouters
            /\ rt' = Append(rt, NewRouter(config.name, StoreOf(config), FormatOf(config)))
            /\ routers' = Put(routers, config.name, Len(rt) + 1)
            /\ lastOp' = Op("start_realm", Len(rt) + 1, NoSession, config, "ok",
                            [router |-> Len(rt) + 1], <<"Router.__init__", "routers.put">>)
       ELSE /\ lastOp' = Op("start_realm", 0, NoSession, config,
                            StartRealmStatus(config), NoRet, << >>)
            /\ UNCHANGED <<rt, routers>>
    /\ UNCHANGED <<HAS_LMDB, _auto_create_realms, pending>>

(***************************************************************************)
(* RouterFactory.add_role                                                  *)
(***************************************************************************)
\* Role configurations: name, whether the keys permissions and authorizer
\* are present, and allow-by-default ("absent" when the key is missing).  The
\* set holds, for each name, a configuration for every branch of add_role:
\* permissions alone, authorizer alone, both, neither, and neither with each
\* value of allow-by-default.
RoleSettings ==
    { <<TRUE, FALSE, "absent">>, <<FALSE, TRUE, "absent">>, <<TRUE, TRUE, "absent">>,
      <<FALSE, FALSE, "absent">>, <<FALSE, FALSE, "true">>, <<FALSE, FALSE, "false">> }

RoleConfigs ==
    { [name |-> n, permissions |-> x[1], authorizer |-> x[2], allow_by_default |-> x[3]] :
        n \in RoleURIs, x \in RoleSettings }

\* The role object the factory builds from a configuration.
RoleFromConfig(config) ==
    IF config.permissions
    THEN [uri |-> config.name, kind |-> "static", allow_by_default |-> FALSE]
    ELSE IF config.authorizer
    THEN DynamicRole(config.name, "any")
    ELSE [uri |-> config.name, kind |-> "default",
          allow_by_default |-> (config.allow_by_default = "true")]

FactoryAddRole(realm, config) ==
    /\ IF realm \notin DOMAIN routers
       THEN /\ lastOp' = Op("factory.add_role", 0, NoSession, config,
                            "AssertionError", NoRet, << >>)
            /\ UNCHANGED rt
       ELSE LET r == routers[realm]
                R == rt[r]
                role == RoleFromConfig(config)
            IN IF IsReserved(role.uri)
               THEN /\ lastOp' = Op("factory.add_role", r, NoSession, config,
                                    "ReservedRole", NoRet, <<"router.add_role">>)
                    /\ UNCHANGED rt
               ELSE /\ rt' = [rt EXCEPT ![r] =
                                [R EXCEPT !.roles = Put(R.roles, role.uri, role)]]
                    /\ lastOp' = Op("factory.add_role", r, NoSession, config,
                                    "ok", NoRet, <<"router.add_role">>)
    /\ UNCHANGED <<HAS_LMDB, _auto_create_realms, routers, pending>>

(***************************************************************************)
(* RouterFactory.get, stop_realm, drop_role                                *)
(***************************************************************************)
\* _auto_create_realms is set to False by RouterFactory.__init__ and is only
\* read in this file: the application that embeds the factory assigns it.
SetAutoCreateRealms(flag) ==
    /\ _auto_create_realms # flag
    /\ _auto_create_realms' = flag
    /\ lastOp' = Op("set_auto_create_realms", 0, NoSession, [flag |-> flag],
                    "ok", NoRet, << >>)
    /\ UNCHANGED <<HAS_LMDB, routers, rt, pending>>

\* Router.__init__ reads realm.config[u'name'].  start_realm passes the realm
\* object; get passes the realm name it was called with, a string, which has
\* no attribute config.
RouterInitStatus(realmIsObject) == IF realmIsObject THEN "ok" ELSE "AttributeError"

LookupStatus_Missing(realm) == "NotFound"

\* self._routers[realm] of a name that is not a key raises KeyError
LookupStatus(realm) == IF realm \in DOMAIN routers THEN "ok" ELSE "NotFound"

Get(realm) ==
    /\ IF _auto_create_realms /\ realm \notin DOMAIN routers
       THEN IF RouterInitStatus(FALSE) = "ok"
            THEN /\ Len(rt) < MaxRouters
                 /\ rt' = Append(rt, NewRouter(realm, "none", "none"))
                 /\ routers' = Put(routers, realm, Len(rt) + 1)
                 /\ lastOp' = Op("get", Len(rt) + 1, NoSession, [realm |-> realm], "ok",
                                 [router |-> Len(rt) + 1],
                                 <<"Router.__init__", "routers.put">>)
            ELSE /\ lastOp' = Op("get", 0, NoSession, [realm |-> realm],
                                 RouterInitStatus(FALSE), NoRet, <<"Router.__init__">>)
                 /\ UNCHANGED <<rt, routers>>
       ELSE /\ IF LookupStatus(realm) = "ok"
               THEN lastOp' = Op("get", routers[realm], NoSession, [realm |-> realm],
                                 "ok", [router |-> routers[realm]], << >>)
               ELSE lastOp' = Op("get", 0, NoSession, [realm |-> realm],
                                 LookupStatus(realm), NoRet, << >>)
            /\ UNCHANGED <<rt, routers>>
    /\ UNCHANGED <<HAS_LMDB, _auto_create_realms, pending>>

\* stop_realm only logs.
StopRealm(realm) ==
    /\ lastOp' = Op("stop_realm", 0, NoSession, [realm |-> realm], "ok", NoRet, << >>)
    /\ UNCHANGED <<HAS_LMDB, _auto_create_realms, routers, rt, pending>>

\* RouterFactory.drop_role only logs.
FactoryDropRole(realm, role) ==
    /\ lastOp' = Op("factory.drop_role", 0, NoSession, [realm |-> realm, role |-> role],
                    "ok", NoRet, << >>)
    /\ UNCHANGED <<HAS_LMDB, _auto_create_realms, routers, rt, pending>>

(***************************************************************************)
(* Router.authorize                                                        *)
(***************************************************************************)
\* What a role's authorize, or the future it returns, yields: a bare boolean
\* or an authorization dict.
BoolResult(b) == [isBool |-> TRUE, b |-> b]

DictResult(d) == [isBool |-> FALSE, dict |-> d]

DictResults ==
    { [allow |-> TRUE, cache |-> TRUE, disclose |-> TRUE],
      [allow |-> FALSE, cache |-> FALSE] }

RawResults ==
    { BoolResult(b) : b \in BOOLEAN } \cup { DictResult(d) : d \in DictResults }

\* The results a role object can give: the trusted role always allows, the
\* default role answers its allow_by_default flag, a static role decides by
\* its permission table and a dynamic role by its authorizer procedure.
RoleAuthorize(role) ==
    IF role.kind = "trusted"
    THEN { x \in RawResults : IF x.isBool THEN x.b ELSE x.dict.allow }
    ELSE IF role.kind = "default"
    THEN { BoolResult(role.allow_by_default) }
    ELSE IF role.kind = "dynamic" /\ role.authorizer = "allow_all"
    THEN { BoolResult(TRUE) }
    ELSE IF role.kind = "dynamic" /\ role.authorizer = "deny_all"
    THEN { BoolResult(FALSE) }
    ELSE RawResults

\* A dynamic role calls its authorizer procedure: the future is not yet fired
\* when authorize returns.
Suspends(role) == role.kind = "dynamic"

auto_disclose_trusted_On == TRUE

\* auto_disclose_trusted = False, inside got_authorization
auto_disclose_trusted == FALSE

\* The callback got_authorization: the normalisation of the result.
got_authorization(authorization, role, action) ==
    LET normalized ==
            IF authorization.isBool
            THEN IF action \in {"call", "publish"}
                 THEN [allow |-> authorization.b, cache |-> FALSE, disclose |-> FALSE]
                 ELSE [allow |-> authorization.b, cache |-> FALSE]
            ELSE authorization.dict
    IN IF auto_disclose_trusted /\ role = "trusted" /\ action \in {"call", "publish"}
       THEN [k \in (DOMAIN normalized) \cup {"disclose"} |->
                IF k = "disclose" THEN TRUE ELSE normalized[k]]
       ELSE normalized

\* The sessions authorize is called for.  authorize reads the session's
\* _authrole (and logs its _session_id and _authid), not whether it is a
\* client session.
AuthSessions == { s \in Sessions : s.client }

\* if role in self._roles
RoleKnown(R, role) == role \in DOMAIN R.roles

MissingRoleResult_Allow == BoolResult(TRUE)

\* d = txaio.create_future_success(False), when the role is not registered
MissingRoleResult == BoolResult(FALSE)

Authorize(r, session, uri, action) ==
    LET R == rt[r]
        role == session.authrole
    IN
    /\ IF RoleKnown(R, role)
       THEN IF Suspends(R.roles[role])
            THEN /\ Cardinality(pending) < MaxPending
                 \* pending is a set: a call equal to one already suspended
                 \* is not explored
                 /\ pending' = pending \cup
                        { [rtr |-> r, sess |-> session, uri |-> uri, action |-> action,
                           role |-> R.roles[role]] }
                 /\ pending' # pending
                 /\ lastOp' = Op("authorize", r, session,
                                 [uri |-> uri, action |-> action],
                                 "suspended", NoRet, <<"role.authorize">>)
            ELSE /\ \E raw \in RoleAuthorize(R.roles[role]) :
                        lastOp' = Op("authorize", r, session,
                                     [uri |-> uri, action |-> action, raw |-> raw],
                                     "ok", got_authorization(raw, role, action),
                                     <<"role.authorize">>)
                 /\ UNCHANGED pending
       ELSE /\ lastOp' = Op("authorize", r, session,
                            [uri |-> uri, action |-> action, raw |-> MissingRoleResult],
                            "ok", got_authorization(MissingRoleResult, role, action),
                            << >>)
            /\ UNCHANGED pending
    /\ UNCHANGED <<HAS_LMDB, _auto_create_realms, routers, rt>>

\* The role a suspended call would answer with if it looked the role up when
\* its future fires.
ResolvingRole_Current(call) ==
    IF call.sess.authrole \in DOMAIN rt[call.rtr].roles
    THEN rt[call.rtr].roles[call.sess.authrole]
    ELSE call.role

\* authorize = self._roles[role].authorize; d = txaio.as_future(authorize, ...):
\* the future belongs to the call made on the role object found at issue.
ResolvingRole(call) == call.role

\* The suspended call's future fires and got_authorization runs.
AuthorizeResolve(call) ==
    /\ call \in pending
    /\ pending' = pending \ {call}
    /\ \E raw \in RoleAuthorize(ResolvingRole(call)) :
            lastOp' = Op("authorize.resolve", call.rtr, call.sess,
                         [uri |-> call.uri, action |-> call.action, raw |-> raw],
                         "ok", got_authorization(raw, call.sess.authrole, call.action),
                         << >>)
    /\ UNCHANGED <<HAS_LMDB, _auto_create_realms, routers, rt>>

(***************************************************************************)
(* Specifications.                                                         *)
(*                                                                         *)
(* Next is every operation, from the factory as constructed.  The session  *)
(* operations (attach, detach, process) read and write only the sessions   *)
(* and the counter of their Router and the realm registry; the role        *)
(* operations (add_role, drop_role, authorize) read and write only the     *)
(* role registry and the suspended calls.  Each group is explored by a     *)
(* specification of its own:                                               *)
(*   SpecSessions  realms are started, torn down and started again, with   *)
(*                 the session operations on every Router constructed;     *)
(*   SpecRouter    the session operations on the Router of a realm started *)
(*                 with {name: "r1"};                                      *)
(*   SpecRoles     the role operations on the Router of such a realm;      *)
(*   SpecRealms    realms are started, torn down and started again by one  *)
(*                 client session that attaches and detaches: the states   *)
(*                 of the realm registry start_realm can be called in.     *)
(*   SpecFactory   SpecRealms with get, stop_realm, the factory's drop_role  *)
(*                 and the auto-creation flag switched on and off;         *)
(*   SpecRoleRegistry  add_role and drop_role on the Router of a started   *)
(*                 realm, with two URIs that are not reserved;             *)
(*   SpecAuthorize authorize calls of one session, suspended in dynamic     *)
(*                 roles and resolved in any order, while the role of the  *)
(*                 session is replaced and dropped;                        *)
(*   SpecLifecycle realms are started, stopped, torn down and started      *)
(*                 again, with a client session and an internal session    *)
(*                 attaching to and detaching from every Router            *)
(*                 constructed, the Routers of torn-down realms included.  *)
(***************************************************************************)
\* The factory after start_realm({name: "r1"}).
InitStarted ==
    /\ HAS_LMDB \in BOOLEAN
    /\ _auto_create_realms = FALSE
    /\ routers = [x \in {"r1"} |-> 1]
    /\ rt = << NewRouter("r1", "none", "opaque") >>
    /\ pending = {}
    /\ lastOp = Op("start_realm", 1, NoSession,
                   [name |-> "r1", store |-> "absent", mqtt_payload_format |-> "absent"],
                   "ok", [router |-> 1], <<"Router.__init__", "routers.put">>)

NextRouter ==
    \/ \E r \in RouterIds, s \in Sessions : Attach(r, s)
    \/ \E r \in RouterIds, s \in Sessions : Detach(r, s)
    \/ \E r \in RouterIds, m \in Messages : Process(r, m)

NextSessions ==
    \/ \E c \in RealmConfigs : StartRealm(c)
    \/ NextRouter

\* The client session of SpecRealms.
TheClient == [id |-> 1, client |-> TRUE, authrole |-> AuthRoleOf(1)]

NextRealms ==
    \/ \E c \in RealmConfigs : StartRealm(c)
    \/ \E r \in RouterIds : Attach(r, TheClient)
    \/ \E r \in RouterIds : Detach(r, TheClient)

\* A session without client-session details (an internal session).
TheInternal == [id |-> 2, client |-> FALSE, authrole |-> AuthRoleOf(2)]

LifecycleSessions == {TheClient, TheInternal}

NextLifecycle ==
    \/ \E c \in RealmConfigs : StartRealm(c)
    \/ \E realm \in Realms : StopRealm(realm)
    \/ \E r \in RouterIds, s \in LifecycleSessions : Attach(r, s)
    \/ \E r \in RouterIds, s \in LifecycleSessions : Detach(r, s)

NextFactory ==
    \/ \E flag \in BOOLEAN : SetAutoCreateRealms(flag)
    \/ \E realm \in Realms : Get(realm)
    \/ \E realm \in Realms : StopRealm(realm)
    \/ \E realm \in Realms, u \in RoleURIs : FactoryDropRole(realm, u)

\* Role objects for the role registry alone: two URIs that are not reserved,
\* each with several role objects, and the reserved one.
RegistryURIs == {"trusted", "user", "admin"}

RegistryRoles ==
    { [uri |-> u, kind |-> k, allow_by_default |-> FALSE] :
        u \in RegistryURIs, k \in {"static", "default"} }
    \cup { DynamicRole(u, "any") : u \in RegistryURIs }
    \cup { [uri |-> u, kind |-> "default", allow_by_default |-> TRUE] : u \in RegistryURIs }

NextRoleRegistry ==
    \/ \E r \in RouterIds, role \in RegistryRoles : AddRole(r, role)
    \/ \E r \in RouterIds, role \in RegistryRoles : DropRole(r, role)

\* The roles and the session of SpecAuthorize: a client session authenticated
\* as "user", and role objects for "user" whose decisions differ.
AuthorizerRoles ==
    { DynamicRole("user", "allow_all"), DynamicRole("user", "deny_all"),
      [uri |-> "user", kind |-> "static", allow_by_default |-> FALSE] }

TheUser == [id |-> 2, client |-> TRUE, authrole |-> AuthRoleOf(2)]

NextAuthorize ==
    \/ \E r \in RouterIds, role \in AuthorizerRoles : AddRole(r, role)
    \/ \E r \in RouterIds, role \in AuthorizerRoles : DropRole(r, role)
    \/ \E r \in RouterIds, u \in Uris, a \in Actions : Authorize(r, TheUser, u, a)
    \/ \E call \in pending : AuthorizeResolve(call)

NextRoles ==
    \/ \E r \in RouterIds, role \in Roles : AddRole(r, role)
    \/ \E r \in RouterIds, role \in Roles : DropRole(r, role)
    \/ \E realm \in Realms, c \in RoleConfigs : FactoryAddRole(realm, c)
    \/ \E r \in RouterIds, s \in AuthSessions, u \in Uris, a \in Actions :
            Authorize(r, s, u, a)
    \/ \E call \in pending : AuthorizeResolve(call)

Next ==
    \/ NextSessions
    \/ NextRoles
    \/ NextFactory

Spec == Init /\ [][Next]_vars

SpecSessions == Init /\ [][NextSessions]_vars

SpecRouter == InitStarted /\ [][NextRouter]_vars

SpecRoles == InitStarted /\ [][NextRoles]_vars

SpecRealms == Init /\ [][NextRealms]_vars

SpecLifecycle == Init /\ [][NextLifecycle]_vars

SpecAuthorize == InitStarted /\ [][NextAuthorize]_vars

SpecRoleRegistry == InitStarted /\ [][NextRoleRegistry]_vars

SpecFactory == Init /\ [][NextRealms \/ NextFactory]_vars

(***************************************************************************)
(* Properties.                                                             *)
(*                                                                         *)
(* A step of an operation is recognised by the record it leaves in lastOp; *)
(* the unprimed variables are the state the operation was called in.       *)
(***************************************************************************)
Range(seq) == { seq[i] : i \in DOMAIN seq }

Count(seq, x) == Cardinality({ i \in DOMAIN seq : seq[i] = x })

IsStep(op, r) == lastOp'.op = op /\ lastOp'.rtr = r

IsSessionStep(op, r, s) == IsStep(op, r) /\ lastOp'.sess = s

\* The realm registry holds Router r under r's realm name.
Registered(r) ==
    /\ rt[r].realm \in DOMAIN routers
    /\ routers[rt[r].realm] = r

\* C1 as stated: for every session S, client or not, attach(S) right after a
\* successful attach(S) on the same Router fails with DuplicateAttach, and the
\* session registry then holds exactly one entry for S's identifier.
C1_AnySessionDuplicateAttach ==
    [][ \A r \in DOMAIN rt, s \in Sessions :
          ( /\ lastOp.op = "attach" /\ lastOp.status = "ok"
            /\ lastOp.rtr = r /\ lastOp.sess = s
            /\ IsSessionStep("attach", r, s) )
          => /\ lastOp'.status = "DuplicateAttach"
             /\ s.id \in DOMAIN rt'[r].sessions
             /\ rt'[r].sessions[s.id] = s ]_vars

\* C1 amended: for a session S with client-session details, attach(S) right
\* after a successful attach(S) fails with DuplicateAttach, changes nothing,
\* and the registry holds the one entry S under S's identifier; for a session
\* without client-session details the second attach succeeds, counts S a second
\* time and leaves no entry for its identifier.
C1_ClientDuplicateAttach ==
    [][ \A r \in DOMAIN rt, s \in Sessions :
          ( /\ lastOp.op = "attach" /\ lastOp.status = "ok"
            /\ lastOp.rtr = r /\ lastOp.sess = s
            /\ IsSessionStep("attach", r, s) )
          => IF s.client
             THEN /\ lastOp'.status = "DuplicateAttach"
                  /\ rt' = rt /\ routers' = routers
                  /\ s.id \in DOMAIN rt'[r].sessions
                  /\ rt'[r].sessions[s.id] = s
             ELSE /\ lastOp'.status = "ok"
                  /\ rt'[r].attached = rt[r].attached + 1
                  /\ s.id \notin DOMAIN rt'[r].sessions ]_vars

\* A client session was attached once and its second attach was refused.
C1_Witness ==
    /\ lastOp.op = "attach" /\ lastOp.status = "DuplicateAttach"
    /\ lastOp.sess.client
    /\ rt[lastOp.rtr].attached = 1
    /\ DOMAIN rt[lastOp.rtr].sessions = {lastOp.sess.id}
    /\ rt[lastOp.rtr].sessions[lastOp.sess.id] = lastOp.sess

\* C2: detach(S) of a client session whose identifier is not in the session
\* registry fails with NotAttached, leaves the counter as it was and does not
\* call onLastDetach, in every state of the Router.
C2_DetachUnknownClient ==
    [][ \A r \in DOMAIN rt, s \in Sessions :
          ( /\ IsSessionStep("detach", r, s)
            /\ s.client
            /\ s.id \notin DOMAIN rt[r].sessions )
          => /\ lastOp'.status = "NotAttached"
             /\ rt'[r].attached = rt[r].attached
             /\ "factory.onLastDetach" \notin Range(lastOp'.trace)
             /\ routers' = routers ]_vars

\* A client session that is not registered was detached from a Router that
\* has a session attached.
C2_Witness ==
    /\ lastOp.op = "detach" /\ lastOp.status = "NotAttached"
    /\ lastOp.sess.client
    /\ lastOp.sess.id \notin DOMAIN rt[lastOp.rtr].sessions
    /\ rt[lastOp.rtr].attached = 1

\* Router r is as start_realm leaves it: registered, nothing attached.
Fresh(r) ==
    /\ Registered(r)
    /\ rt[r].attached = 0
    /\ rt[r].sessions = EmptyDict

\* Session s is the one session attached to the registered Router r.
Sole(r, s) ==
    /\ Registered(r)
    /\ rt[r].attached = 1
    /\ rt[r].sessions = IF s.client THEN [i \in {s.id} |-> s] ELSE EmptyDict

\* C3: on a started realm, attach(S) succeeds and makes S the sole attached
\* session; process calls keep it so; detach(S) then succeeds, brings the
\* counter to zero, calls onLastDetach exactly once and the realm name is no
\* longer in the factory's registry.
C3_SoleSessionTeardown ==
    /\ Fresh(1)
    /\ [][ \A r \in DOMAIN rt, s \in Sessions :
             /\ (IsSessionStep("attach", r, s) /\ Fresh(r))
                => (lastOp'.status = "ok" /\ Sole(r, s)')
             /\ (IsStep("process", r) /\ Sole(r, s)) => Sole(r, s)'
             /\ (IsSessionStep("detach", r, s) /\ Sole(r, s))
                => /\ lastOp'.status = "ok"
                   /\ rt'[r].attached = 0
                   /\ Count(lastOp'.trace, "factory.onLastDetach") = 1
                   /\ rt[r].realm \notin DOMAIN routers' ]_vars

\* The last session was detached and the realm is gone from the registry.
C3_Witness ==
    /\ lastOp.op = "detach" /\ lastOp.status = "ok"
    /\ Count(lastOp.trace, "factory.onLastDetach") = 1
    /\ rt[lastOp.rtr].attached = 0
    /\ rt[lastOp.rtr].sessions = EmptyDict
    /\ rt[lastOp.rtr].realm \notin DOMAIN routers

\* Every Router has the role installed at construction under "trusted".
TrustedInstalled ==
    \A r \in DOMAIN rt :
        /\ has_role(rt[r], "trusted")
        /\ rt[r].roles["trusted"] = TrustedRole

\* C4: after any sequence of add_role, drop_role and factory add_role calls the
\* role registry maps "trusted" to the role installed at construction; add_role
\* and drop_role of a role with URI "trusted" fail with ReservedRole and leave
\* the role registry unchanged.
C4_TrustedReserved ==
    /\ TrustedInstalled
    /\ [][ /\ TrustedInstalled'
           /\ \A r \in DOMAIN rt :
                ( /\ (IsStep("add_role", r) \/ IsStep("drop_role", r))
                  /\ lastOp'.arg.uri = "trusted" )
                => (lastOp'.status = "ReservedRole" /\ rt' = rt)
           /\ (lastOp'.op = "factory.add_role" /\ lastOp'.arg.name = "trusted")
                => (lastOp'.status \in {"ReservedRole", "AssertionError"} /\ rt' = rt)
        ]_vars

\* A role was registered under "user" and add_role of "trusted" was refused.
C4_Witness ==
    /\ lastOp.op = "add_role" /\ lastOp.arg.uri = "trusted"
    /\ lastOp.status = "ReservedRole"
    /\ has_role(rt[lastOp.rtr], "user")

\* C5: authorize for a session whose authrole is not in the role registry
\* resolves, without an error and without a call of any role's authorize, to a
\* result with allow = false, for each of the four actions.
C5_UnknownRoleDenied ==
    [][ \A r \in DOMAIN rt, a \in Actions :
          ( /\ IsStep("authorize", r)
            /\ lastOp'.arg.action = a
            /\ lastOp'.sess.authrole \notin DOMAIN rt[r].roles )
          => /\ lastOp'.status = "ok"
             /\ lastOp'.ret.allow = FALSE
             /\ "role.authorize" \notin Range(lastOp'.trace)
             /\ pending' = pending
             /\ rt' = rt ]_vars

\* authorize was called for a session whose role is not registered.
C5_Witness ==
    /\ lastOp.op = "authorize" /\ lastOp.status = "ok"
    /\ lastOp.sess.authrole \notin DOMAIN rt[lastOp.rtr].roles
    /\ lastOp.arg.action = "publish"
    /\ lastOp.ret.allow = FALSE

\* The step resolves an authorize call with a result a role gave.
ResolvesRoleResult ==
    \/ /\ lastOp'.op = "authorize" /\ lastOp'.status = "ok"
       /\ "role.authorize" \in Range(lastOp'.trace)
    \/ lastOp'.op = "authorize.resolve"

\* C6: a bare boolean b from the role resolves to {allow: b, cache: false,
\* disclose: false} for call and publish and to {allow: b, cache: false}, with
\* no disclose key, for register and subscribe; a result that is a record is
\* returned as it is, also for the trusted role.
C6_NormalizedResult ==
    [][ ResolvesRoleResult =>
          LET raw == lastOp'.arg.raw
              action == lastOp'.arg.action
          IN IF raw.isBool
             THEN IF action \in {"call", "publish"}
                  THEN lastOp'.ret = [allow |-> raw.b, cache |-> FALSE, disclose |-> FALSE]
                  ELSE /\ lastOp'.ret = [allow |-> raw.b, cache |-> FALSE]
                       /\ DOMAIN lastOp'.ret = {"allow", "cache"}
             ELSE lastOp'.ret = raw.dict ]_vars

\* The trusted role answered a call with a bare True.
C6_Witness ==
    /\ lastOp.op = "authorize" /\ lastOp.status = "ok"
    /\ lastOp.sess.authrole = "trusted"
    /\ lastOp.arg.action = "call"
    /\ lastOp.arg.raw = BoolResult(TRUE)
    /\ lastOp.ret = [allow |-> TRUE, cache |-> FALSE, disclose |-> FALSE]

\* The message kinds of the dispatch table.
TableKinds ==
    {"Publish", "Subscribe", "Unsubscribe", "Register", "Unregister",
     "Call", "Cancel", "Yield", "Error"}

\* C7: process of a message whose kind is not in the dispatch table fails with
\* ProtocolError, calls no Broker or Dealer handler and changes nothing of the
\* Router or the factory.
C7_UnknownKindRejected ==
    [][ \A r \in DOMAIN rt :
          (IsStep("process", r) /\ lastOp'.arg.kind \notin TableKinds)
          => /\ lastOp'.status = "ProtocolError"
             /\ lastOp'.trace = << >>
             /\ rt' = rt /\ routers' = routers /\ pending' = pending ]_vars

\* A Goodbye message was processed on a Router with a session attached.
C7_Witness ==
    /\ lastOp.op = "process" /\ lastOp.arg.kind = "Goodbye"
    /\ lastOp.status = "ProtocolError"
    /\ rt[lastOp.rtr].attached = 1

\* The dispatch table of the specification.
HandlerOf ==
    [k \in TableKinds \ {"Error"} |->
        CASE k = "Publish" -> "broker.processPublish"
          [] k = "Subscribe" -> "broker.processSubscribe"
          [] k = "Unsubscribe" -> "broker.processUnsubscribe"
          [] k = "Register" -> "dealer.processRegister"
          [] k = "Unregister" -> "dealer.processUnregister"
          [] k = "Call" -> "dealer.processCall"
          [] k = "Cancel" -> "dealer.processCancel"
          [] k = "Yield" -> "dealer.processYield"]

\* C8: process forwards a message to exactly one handler, the one the table
\* names for its kind; an Error goes to Dealer.processInvocationError if and
\* only if its request_type is Invocation, and any other Error is rejected with
\* ProtocolError and reaches no handler.
C8_DispatchTable ==
    [][ \A r \in DOMAIN rt :
          IsStep("process", r) =>
            LET msg == lastOp'.arg IN
            /\ msg.kind \in DOMAIN HandlerOf
               => (lastOp'.status = "ok" /\ lastOp'.trace = <<HandlerOf[msg.kind]>>)
            /\ (msg.kind = "Error" /\ msg.request_type = "Invocation")
               => /\ lastOp'.status = "ok"
                  /\ lastOp'.trace = <<"dealer.processInvocationError">>
            /\ (msg.kind = "Error" /\ msg.request_type # "Invocation")
               => (lastOp'.status = "ProtocolError" /\ lastOp'.trace = << >>)
            /\ "dealer.processInvocationError" \in Range(lastOp'.trace)
               => (msg.kind = "Error" /\ msg.request_type = "Invocation") ]_vars

\* An Error answering a Call was rejected.
C8_Witness ==
    /\ lastOp.op = "process" /\ lastOp.arg.kind = "Error"
    /\ lastOp.arg.request_type = "Call"
    /\ lastOp.status = "ProtocolError" /\ lastOp.trace = << >>

\* C9: start_realm with a store of type lmdb where LMDB is not available fails,
\* with BackendUnavailable when the name is not yet registered, creates no
\* Router and leaves the realm registry unchanged.
C9_LmdbUnavailable ==
    [][ ( /\ lastOp'.op = "start_realm"
          /\ lastOp'.arg.store = "lmdb"
          /\ ~HAS_LMDB )
        => /\ lastOp'.status \in {"BackendUnavailable", "AssertionError"}
           /\ lastOp'.arg.name \notin DOMAIN routers
              => lastOp'.status = "BackendUnavailable"
           /\ routers' = routers
           /\ rt' = rt ]_vars

\* start_realm with an lmdb store failed on a deployment without LMDB, after
\* a realm had been started and torn down.
C9_Witness ==
    /\ lastOp.op = "start_realm" /\ lastOp.arg.store = "lmdb"
    /\ lastOp.status = "BackendUnavailable"
    /\ ~HAS_LMDB
    /\ lastOp.arg.name \notin DOMAIN routers
    /\ Len(rt) = 1

InvalidFormat(config) ==
    config.mqtt_payload_format \notin {"absent", "opaque", "json", "cbor"}

\* C10 as stated: start_realm of an unregistered name with an
\* mqtt_payload_format outside {opaque, json, cbor} fails with InvalidConfig
\* and leaves the realm registry unchanged.
C10_InvalidFormatAlwaysInvalidConfig ==
    [][ ( /\ lastOp'.op = "start_realm"
          /\ InvalidFormat(lastOp'.arg)
          /\ lastOp'.arg.name \notin DOMAIN routers )
        => /\ lastOp'.status = "InvalidConfig"
           /\ routers' = routers
           /\ rt' = rt ]_vars

\* The store section of the configuration passes start_realm's store checks.
StoreAccepted(config) ==
    \/ config.store \in {"absent", "memory"}
    \/ config.store = "lmdb" /\ HAS_LMDB

\* C10 amended: start_realm with an mqtt_payload_format outside {opaque, json,
\* cbor} fails, creates no Router and leaves the realm registry unchanged; the
\* error is InvalidConfig when the name is not registered and the store
\* section is accepted (the store is checked first).  With the key absent, a
\* start_realm that succeeds creates the Router with format opaque and
\* registers it.
C10_InvalidFormatRejected ==
    [][ lastOp'.op = "start_realm" =>
          LET config == lastOp'.arg IN
          /\ InvalidFormat(config)
             => /\ lastOp'.status # "ok"
                /\ routers' = routers
                /\ rt' = rt
                /\ (config.name \notin DOMAIN routers /\ StoreAccepted(config))
                   => lastOp'.status = "InvalidConfig"
          /\ (config.mqtt_payload_format = "absent" /\ lastOp'.status = "ok")
             => /\ Len(rt') = Len(rt) + 1
                /\ rt'[Len(rt')].mqtt_payload_format = "opaque"
                /\ routers'[config.name] = Len(rt')
          /\ ( /\ config.mqtt_payload_format = "absent"
               /\ config.name \notin DOMAIN routers
               /\ StoreAccepted(config) )
             => lastOp'.status = "ok" ]_vars

\* start_realm with format xml and no store section was refused.
C10_Witness ==
    /\ lastOp.op = "start_realm"
    /\ lastOp.arg.mqtt_payload_format = "xml" /\ lastOp.arg.store = "absent"
    /\ lastOp.status = "InvalidConfig"
    /\ lastOp.arg.name \notin DOMAIN routers

\* The step calls RouterFactory.onLastDetach.
CallsOnLastDetach == "factory.onLastDetach" \in Range(lastOp'.trace)

\* C11: over any sequence of start_realm, stop_realm, attach and detach calls,
\* a Router leaves the realm registry exactly in the steps in which its own
\* attached counter goes from 1 to 0; only a step that calls onLastDetach
\* removes a registry entry; onLastDetach is never called for a realm name that
\* is not registered; and a Router whose counter is above 0 is registered.
C11_RemovedExactlyOnLastDetach ==
    [][ /\ \A r \in DOMAIN rt :
             (Registered(r) /\ ~Registered(r)')
             <=> (rt[r].attached = 1 /\ rt'[r].attached = 0)
        /\ (\E n \in DOMAIN routers : n \notin DOMAIN routers') => CallsOnLastDetach
        /\ CallsOnLastDetach => rt[lastOp'.rtr].realm \in DOMAIN routers
        /\ \A r \in DOMAIN rt' : rt'[r].attached > 0 => Registered(r)' ]_vars

\* C12: with auto-creation disabled, get(realmUri) returns the Router
\* registered under realmUri, fails with NotFound when realmUri is not
\* registered, and in both cases leaves the realm registry and the Routers
\* unchanged.
C12_GetLooksUp ==
    [][ (lastOp'.op = "get" /\ ~_auto_create_realms) =>
          LET realm == lastOp'.arg.realm IN
          /\ realm \in DOMAIN routers
             => (lastOp'.status = "ok" /\ lastOp'.ret = [router |-> routers[realm]])
          /\ realm \notin DOMAIN routers => lastOp'.status = "NotFound"
          /\ routers' = routers
          /\ rt' = rt ]_vars

\* With auto-creation disabled, get of a realm that was started and torn down
\* failed with NotFound.
C12_Witness ==
    /\ lastOp.op = "get" /\ lastOp.status = "NotFound"
    /\ ~_auto_create_realms
    /\ lastOp.arg.realm = "r1"
    /\ Len(rt) = 1
    /\ routers = [x \in {} |-> 0]

\* C13: with auto-creation enabled, get(realmUri) for an unregistered realmUri
\* constructs a Router with no store, registers it under realmUri and returns
\* it; get for a registered realmUri returns the existing Router and replaces
\* nothing.
C13_GetCreatesOnDemand ==
    [][ (lastOp'.op = "get" /\ _auto_create_realms) =>
          LET realm == lastOp'.arg.realm IN
          /\ realm \notin DOMAIN routers
             => /\ lastOp'.status = "ok"
                /\ Len(rt') = Len(rt) + 1
                /\ rt'[Len(rt')].realm = realm
                /\ rt'[Len(rt')].store = "none"
                /\ realm \in DOMAIN routers'
                /\ routers'[realm] = Len(rt')
                /\ lastOp'.ret = [router |-> Len(rt')]
          /\ realm \in DOMAIN routers
             => /\ lastOp'.status = "ok"
                /\ lastOp'.ret = [router |-> routers[realm]]
                /\ routers' = routers
                /\ rt' = rt ]_vars

\* The entries of role registry d under URIs other than u are those of e.
SameElsewhere(d, e, u) ==
    /\ (DOMAIN d) \ {u} = (DOMAIN e) \ {u}
    /\ \A v \in (DOMAIN d) \ {u} : d[v] = e[v]

\* C14: for a role URI u that is not reserved, add_role returns true exactly
\* when u was in the role registry before the call and afterwards u maps to
\* the new role; drop_role returns true exactly when u was in the registry
\* and afterwards u is absent; drop_role of an absent role raises nothing,
\* returns false and leaves the registry as it was.  Neither changes the
\* entry of another URI.
C14_RoleRegistryContract ==
    [][ \A r \in DOMAIN rt :
          /\ (IsStep("add_role", r) /\ lastOp'.arg.uri \notin RESERVED_ROLES)
             => LET u == lastOp'.arg.uri IN
                /\ lastOp'.status = "ok"
                /\ lastOp'.ret = [value |-> (u \in DOMAIN rt[r].roles)]
                /\ u \in DOMAIN rt'[r].roles
                /\ rt'[r].roles[u] = lastOp'.arg
                /\ SameElsewhere(rt[r].roles, rt'[r].roles, u)
          /\ (IsStep("drop_role", r) /\ lastOp'.arg.uri \notin RESERVED_ROLES)
             => LET u == lastOp'.arg.uri IN
                /\ lastOp'.status = "ok"
                /\ lastOp'.ret = [value |-> (u \in DOMAIN rt[r].roles)]
                /\ u \notin DOMAIN rt'[r].roles
                /\ SameElsewhere(rt[r].roles, rt'[r].roles, u)
                /\ u \notin DOMAIN rt[r].roles => rt'[r].roles = rt[r].roles ]_vars

\* A role under "user" was added for the first time next to a role registered
\* under "admin".
C14_Witness ==
    /\ lastOp.op = "add_role" /\ lastOp.arg.uri = "user"
    /\ lastOp.status = "ok" /\ lastOp.ret = [value |-> FALSE]
    /\ DOMAIN rt[lastOp.rtr].roles = {"trusted", "user", "admin"}
    /\ rt[lastOp.rtr].roles["user"] = lastOp.arg

\* The position of the first x in seq, Len(seq) + 1 when x is not in seq.
IndexOf(seq, x) ==
    IF x \in Range(seq)
    THEN CHOOSE i \in DOMAIN seq : seq[i] = x /\ \A j \in 1..(i - 1) : seq[j] # x
    ELSE Len(seq) + 1

\* C15: every detach forwards detach to the Broker and then to the Dealer
\* before anything else: a detach that fails with NotAttached has made both
\* calls, and has made them once; a detach that gets past the session
\* registry makes both calls before the registry entry is removed, before the
\* counter is decremented and before onLastDetach is called.
C15_DetachForwardsFirst ==
    [][ \A r \in DOMAIN rt :
          IsStep("detach", r) =>
            LET tr == lastOp'.trace IN
            /\ Len(tr) >= 2
            /\ tr[1] = "broker.detach" /\ tr[2] = "dealer.detach"
            /\ Count(tr, "broker.detach") = 1 /\ Count(tr, "dealer.detach") = 1
            /\ lastOp'.status = "NotAttached"
               => (tr = <<"broker.detach", "dealer.detach">> /\ rt' = rt)
            /\ lastOp'.status # "NotAttached"
               => /\ rt'[r].attached = rt[r].attached - 1
                  /\ "attached.dec" \in Range(tr)
                  /\ \A x \in {"sessions.del", "attached.dec", "factory.onLastDetach"} :
                        IndexOf(tr, "dealer.detach") < IndexOf(tr, x) ]_vars

\* A detach of a client session that is not registered failed after both
\* sub-engines were told, on a Router with another session attached.
C15_Witness ==
    /\ lastOp.op = "detach" /\ lastOp.status = "NotAttached"
    /\ lastOp.trace = <<"broker.detach", "dealer.detach">>
    /\ lastOp.sess.client
    /\ rt[lastOp.rtr].attached = 1
    /\ DOMAIN rt[lastOp.rtr].sessions # {}

\* C16: attach of a session without client-session details never adds a
\* registry entry and, when no registered session carries its identifier,
\* succeeds, forwards attach to the Broker and the Dealer and increments the
\* counter; detach of such a session never fails with NotAttached, decrements
\* the counter and leaves the entries under every other identifier as they
\* were (the whole registry, when no registered session carries its
\* identifier).
C16_InternalSessionUntracked ==
    [][ \A r \in DOMAIN rt, s \in Sessions :
          ~s.client =>
            /\ IsSessionStep("attach", r, s)
               => /\ rt'[r].sessions = rt[r].sessions
                  /\ s.id \notin DOMAIN rt[r].sessions
                     => /\ lastOp'.status = "ok"
                        /\ lastOp'.trace = <<"broker.attach", "dealer.attach", "attached.inc">>
                        /\ rt'[r].attached = rt[r].attached + 1
            /\ IsSessionStep("detach", r, s)
               => /\ lastOp'.status # "NotAttached"
                  /\ rt'[r].attached = rt[r].attached - 1
                  /\ \A i \in (DOMAIN rt[r].sessions) \ {s.id} :
                        /\ i \in DOMAIN rt'[r].sessions
                        /\ rt'[r].sessions[i] = rt[r].sessions[i]
                  /\ s.id \notin DOMAIN rt[r].sessions
                     => rt'[r].sessions = rt[r].sessions ]_vars

\* An internal session was detached while a client session with another
\* identifier stays registered and attached.
C16_Witness ==
    /\ lastOp.op = "detach" /\ lastOp.status = "ok"
    /\ ~lastOp.sess.client
    /\ rt[lastOp.rtr].attached = 1
    /\ \E i \in DOMAIN rt[lastOp.rtr].sessions : i # lastOp.sess.id
    /\ lastOp.sess.id \notin DOMAIN rt[lastOp.rtr].sessions

\* C17: whenever a Router calls onLastDetach, after any sequence of attach and
\* detach calls, its session registry is empty.
C17_TeardownOnlyWhenEmpty ==
    [][ CallsOnLastDetach => rt'[lastOp'.rtr].sessions = EmptyDict ]_vars

\* C18: in every reachable state the attached counter of every Router is not
\* negative and is at least the number of entries of its session registry.
C18_CounterCoversRegistry ==
    \A r \in DOMAIN rt :
        /\ rt[r].attached >= 0
        /\ rt[r].attached >= Cardinality(DOMAIN rt[r].sessions)

\* C19: onLastDetach removes only the registry entry that holds the Router
\* that called it: no attach or detach on a Router r takes another Router,
\* one that is registered and has attached sessions, out of the registry.
C19_StaleRouterRemovesNothing ==
    [][ \A r \in DOMAIN rt :
          (IsStep("attach", r) \/ IsStep("detach", r)) =>
            \A q \in (DOMAIN rt) \ {r} :
                (Registered(q) /\ rt[q].attached > 0) => Registered(q)' ]_vars

\* C20: authorize looks the session's role up once, when the call is issued.
\* A call suspended in a dynamic role is bound to the role object registered
\* at that moment; when it resolves, in whatever order and whatever add_role
\* and drop_role did to that URI meanwhile, the result is the decision of that
\* role object, normalised for the call's own action, and is reported for the
\* call's own session, uri and action.
C20_RoleBoundAtIssue ==
    [][ /\ (lastOp'.op = "authorize" /\ lastOp'.status = "suspended")
           => LET call == [rtr |-> lastOp'.rtr, sess |-> lastOp'.sess,
                           uri |-> lastOp'.arg.uri, action |-> lastOp'.arg.action,
                           role |-> rt[lastOp'.rtr].roles[lastOp'.sess.authrole]]
              IN /\ call \notin pending
                 /\ pending' = pending \cup {call}
        /\ lastOp'.op = "authorize.resolve"
           => \E call \in pending :
                /\ pending' = pending \ {call}
                /\ lastOp'.rtr = call.rtr /\ lastOp'.sess = call.sess
                /\ lastOp'.arg.uri = call.uri /\ lastOp'.arg.action = call.action
                /\ call.role.authorizer \in {"allow_all", "deny_all"}
                   => lastOp'.ret.allow = (call.role.authorizer = "allow_all")
                /\ ("disclose" \in DOMAIN lastOp'.ret)
                   <=> (call.action \in {"call", "publish"})
                /\ rt' = rt ]_vars

\* A call issued under an allow_all role resolved to allow after the role of
\* the session had been replaced by a deny_all role, while another call is
\* still suspended.
C20_Witness ==
    /\ lastOp.op = "authorize.resolve"
    /\ lastOp.ret.allow = TRUE
    /\ "user" \in DOMAIN rt[lastOp.rtr].roles
    /\ rt[lastOp.rtr].roles["user"] = DynamicRole("user", "deny_all")
    /\ pending # {}

====
